---- MODULE Spec2Model ----
(***************************************************************************)
(* Model of the lexical scanner of src/src/scanner.rs.                     *)
(*                                                                         *)
(* A Scanner is an iterator over the bytes of a borrowed buffer plus a     *)
(* mode.  The iterator `self.iter` is modelled by `cursor`, the offset of  *)
(* its first remaining byte; its end is the end of the buffer.  A local    *)
(* `Iter<u8>` handed to a scan routine is modelled the same way, by the    *)
(* offset of the next byte it would yield, and a `slice_end` pointer by    *)
(* the offset it points to.  Bytes are their ASCII codes.                  *)
(***************************************************************************)
EXTENDS Integers, Sequences, FiniteSets, TLC

VARIABLES buf, cursor, mode, emitted, ret

vars == <<buf, cursor, mode, emitted, ret>>

(***************************************************************************)
(* Bounds of the model.                                                    *)
(***************************************************************************)
\* The longest buffer scanned under Spec.
MaxLen == 4
\* The longest buffer scanned under FairSpec.
MaxFairLen == 3

(***************************************************************************)
(* The bytes the scanner tells apart.                                      *)
(***************************************************************************)
TAB == 9
LF == 10
CR == 13
SPACE == 32
QUOTE == 34
HASH == 35
LPAREN == 40
RPAREN == 41
PLUS == 43
MINUS == 45
DOT == 46
DIGIT0 == 48
DIGIT9 == 57
COLON == 58
SEMICOLON == 59
LBRACKET == 91
BACKSLASH == 92
RBRACKET == 93
LOWER_A == 97
LOWER_F == 102
LOWER_T == 116
LBRACE == 123
RBRACE == 125

\* The input bytes buffers are drawn from: the atmosphere bytes, the quote,
\* the backslash, '#' with the bytes scan_number_sign matches after it, '.',
\* and one byte each for the signs, the digits, the structural delimiters
\* and the ordinary identifier bytes.
Alphabet ==
    {SPACE, TAB, LF, CR, SEMICOLON, LPAREN, QUOTE, PLUS, HASH, LOWER_T,
     BACKSLASH, COLON, DOT, DIGIT0 + 1, LOWER_A}

Buffers(max) == UNION {[1..n -> Alphabet] : n \in 0..max}

\* The byte at offset i of the buffer (offsets start at 0).
At(i) == buf[i + 1]

\* Iter::next on an iterator at offset iter yields a byte iff this holds.
HasNext(iter) == iter < Len(buf)

is_ascii_digit(ch) == DIGIT0 <= ch /\ ch <= DIGIT9

is_newline_start(ch) == ch = CR \/ ch = LF

is_atmosphere_start(ch) ==
    IF ch = SPACE \/ ch = TAB \/ ch = SEMICOLON THEN TRUE
    ELSE is_newline_start(ch)

is_delimiter(ch) ==
    IF ch \in {LPAREN, RPAREN, LBRACKET, RBRACKET, LBRACE, RBRACE, QUOTE}
    THEN TRUE
    ELSE is_atmosphere_start(ch)

ScanRes(kind, slice_end) == [kind |-> kind, slice_end |-> slice_end]

\* scan_whitespace as it would be if it took the leading space alone.
scan_whitespace_one_byte(iter) == ScanRes("Whitespace", iter)

RECURSIVE scan_whitespace(_)
scan_whitespace(iter) ==
    IF HasNext(iter) /\ At(iter) = SPACE THEN scan_whitespace(iter + 1)
    ELSE ScanRes("Whitespace", iter)

RECURSIVE scan_tab(_)
scan_tab(iter) ==
    IF HasNext(iter) /\ At(iter) = TAB THEN scan_tab(iter + 1)
    ELSE ScanRes("Tab", iter)

\* scan_cr as it would be if it never looked at the byte after the CR.
scan_cr_never_merges(iter) == ScanRes("NewlineCr", iter)

scan_cr(iter) ==
    IF HasNext(iter) /\ At(iter) = LF THEN ScanRes("NewlineCrlf", iter + 1)
    ELSE ScanRes("NewlineCr", iter)

\* scan_comment as it would be if any delimiter ended the comment.
RECURSIVE scan_comment_to_delimiter(_)
scan_comment_to_delimiter(iter) ==
    IF HasNext(iter) /\ ~is_delimiter(At(iter))
    THEN scan_comment_to_delimiter(iter + 1)
    ELSE ScanRes("Comment", iter)

RECURSIVE scan_comment(_)
scan_comment(iter) ==
    IF HasNext(iter) /\ ~is_newline_start(At(iter)) THEN scan_comment(iter + 1)
    ELSE ScanRes("Comment", iter)

RECURSIVE advance_to_delimiter(_)
advance_to_delimiter(iter) ==
    IF HasNext(iter) /\ ~is_delimiter(At(iter))
    THEN advance_to_delimiter(iter + 1)
    ELSE iter

scan_identifier_continue(iter) ==
    ScanRes("Identifier", advance_to_delimiter(iter))

\* scan_float as it would be if a byte that is neither a digit nor a delimiter
\* ended the literal instead of collapsing the run to an Identifier.
RECURSIVE scan_float_splits(_)
scan_float_splits(iter) ==
    IF ~HasNext(iter) THEN ScanRes("FloatLit", iter)
    ELSE IF ~is_ascii_digit(At(iter)) THEN ScanRes("FloatLit", iter)
    ELSE scan_float_splits(iter + 1)

RECURSIVE scan_float(_)
scan_float(iter) ==
    IF ~HasNext(iter) THEN ScanRes("FloatLit", iter)
    ELSE IF is_delimiter(At(iter)) THEN ScanRes("FloatLit", iter)
    ELSE IF ~is_ascii_digit(At(iter)) THEN scan_identifier_continue(iter + 1)
    ELSE scan_float(iter + 1)

\* The first loop of scan_number_continue: the end of the run of digits.
RECURSIVE skip_digits(_)
skip_digits(iter) ==
    IF HasNext(iter) /\ is_ascii_digit(At(iter)) THEN skip_digits(iter + 1)
    ELSE iter

scan_number_continue(iter) ==
    LET it == skip_digits(iter) IN
    IF HasNext(it) /\ At(it) = DOT THEN scan_float(it + 1)
    ELSE IF HasNext(it) /\ ~is_delimiter(At(it))
         THEN scan_identifier_continue(it + 1)
    ELSE ScanRes("IntLit", it)

\* scan_keyword as it would be if a keyword with no payload were rejected.
scan_keyword_rejects_empty(iter) ==
    IF advance_to_delimiter(iter) = iter
    THEN ScanRes("InvalidNumberSign", iter)
    ELSE ScanRes("KeywordLit", advance_to_delimiter(iter))

scan_keyword(iter) == ScanRes("KeywordLit", advance_to_delimiter(iter))

scan_char(iter) == ScanRes("CharLit", advance_to_delimiter(iter))

\* The loop of scan_string, the whole-literal routine next() no longer calls
\* (its arm of the match is commented out).  iter is consumed byte by byte.
RECURSIVE scan_string_loop(_, _)
scan_string_loop(iter, escaping) ==
    IF ~HasNext(iter) THEN ScanRes("UnterminatedString", iter)
    ELSE IF At(iter) = BACKSLASH THEN scan_string_loop(iter + 1, TRUE)
    ELSE IF At(iter) = QUOTE /\ ~escaping THEN ScanRes("StringLit", iter + 1)
    ELSE scan_string_loop(iter + 1, FALSE)

scan_string(iter) == scan_string_loop(iter, FALSE)

\* The two routines that take &mut self return the scan result together
\* with the value they leave in self.mode.
\* The '"' arm of next() as it would be with the commented-out call of
\* scan_string in place of scan_string_start.
scan_string_start_whole_literal(iter) ==
    [res |-> scan_string(iter), mode |-> "Regular"]

scan_string_start(iter) ==
    [res |-> ScanRes("LString", iter), mode |-> "String"]

\* The loop of scan_string_continue as it would be if a backslash protected
\* a newline byte the way it protects a quote.
RECURSIVE string_content_escapes_newline(_, _)
string_content_escapes_newline(iter, escaping) ==
    IF ~HasNext(iter) THEN ScanRes("StringContent", iter)
    ELSE IF At(iter) = BACKSLASH
         THEN string_content_escapes_newline(iter + 1, TRUE)
    ELSE IF At(iter) = QUOTE /\ ~escaping THEN ScanRes("StringContent", iter)
    ELSE IF is_newline_start(At(iter)) /\ ~escaping
         THEN ScanRes("StringContent", iter)
    ELSE string_content_escapes_newline(iter + 1, FALSE)

\* The loop of scan_string_continue.  iter and peek_iter are at the same
\* offset at the head of every iteration, so one offset stands for both.
RECURSIVE string_content(_, _)
string_content(iter, escaping) ==
    IF ~HasNext(iter) THEN ScanRes("StringContent", iter)
    ELSE IF At(iter) = BACKSLASH THEN string_content(iter + 1, TRUE)
    ELSE IF At(iter) = QUOTE /\ ~escaping THEN ScanRes("StringContent", iter)
    ELSE IF is_newline_start(At(iter)) THEN ScanRes("StringContent", iter)
    ELSE string_content(iter + 1, FALSE)

\* scan_string_continue as it would be if the closing quote did not put
\* self.mode back to Regular.
scan_string_continue_keeps_mode(ch, iter) ==
    IF ch = QUOTE THEN [res |-> ScanRes("RString", iter), mode |-> "String"]
    ELSE IF ch = CR THEN [res |-> scan_cr(iter), mode |-> "String"]
    ELSE IF ch = LF THEN [res |-> ScanRes("NewlineLf", iter), mode |-> "String"]
    ELSE [res |-> string_content(iter, FALSE), mode |-> "String"]

scan_string_continue(ch, iter) ==
    IF ch = QUOTE THEN [res |-> ScanRes("RString", iter), mode |-> "Regular"]
    ELSE IF ch = CR THEN [res |-> scan_cr(iter), mode |-> "String"]
    ELSE IF ch = LF THEN [res |-> ScanRes("NewlineLf", iter), mode |-> "String"]
    ELSE [res |-> string_content(iter, FALSE), mode |-> "String"]

\* iter is the iterator after the sign; scan_sign takes one more byte from
\* it before it decides, and every branch uses the advanced iterator.
scan_sign(iter) ==
    IF ~HasNext(iter) THEN ScanRes("Identifier", iter)
    ELSE IF is_ascii_digit(At(iter)) THEN scan_number_continue(iter + 1)
    ELSE IF is_delimiter(At(iter)) THEN ScanRes("Identifier", iter + 1)
    ELSE scan_identifier_continue(iter + 1)

\* scan_number_sign as it would be if '#' at the end of the input gave back
\* the start of the lexeme as its end.
scan_number_sign_empty_at_end(iter) ==
    IF ~HasNext(iter) THEN ScanRes("InvalidNumberSign", iter - 1)
    ELSE IF At(iter) = LOWER_T \/ At(iter) = LOWER_F THEN
        IF HasNext(iter + 1) /\ ~is_delimiter(At(iter + 1))
        THEN ScanRes("InvalidNumberSign", advance_to_delimiter(iter + 2))
        ELSE ScanRes("BoolLit", iter + 1)
    ELSE IF At(iter) = BACKSLASH THEN scan_char(iter + 1)
    ELSE IF At(iter) = COLON THEN scan_keyword(iter + 1)
    ELSE ScanRes("InvalidNumberSign", advance_to_delimiter(iter + 1))

\* scan_number_sign as it would be if #t and #f did not look at the byte
\* that follows them.
scan_number_sign_loose_bool(iter) ==
    IF ~HasNext(iter) THEN ScanRes("InvalidNumberSign", iter)
    ELSE IF At(iter) = LOWER_T \/ At(iter) = LOWER_F
         THEN ScanRes("BoolLit", iter + 1)
    ELSE IF At(iter) = BACKSLASH THEN scan_char(iter + 1)
    ELSE IF At(iter) = COLON THEN scan_keyword(iter + 1)
    ELSE ScanRes("InvalidNumberSign", advance_to_delimiter(iter + 1))

scan_number_sign(iter) ==
    IF ~HasNext(iter) THEN ScanRes("InvalidNumberSign", iter)
    ELSE IF At(iter) = LOWER_T \/ At(iter) = LOWER_F THEN
        IF HasNext(iter + 1) /\ ~is_delimiter(At(iter + 1))
        THEN ScanRes("InvalidNumberSign", advance_to_delimiter(iter + 2))
        ELSE ScanRes("BoolLit", iter + 1)
    ELSE IF At(iter) = BACKSLASH THEN scan_char(iter + 1)
    ELSE IF At(iter) = COLON THEN scan_keyword(iter + 1)
    ELSE ScanRes("InvalidNumberSign", advance_to_delimiter(iter + 1))

\* The match on the leading byte in Regular mode.
scan_regular(ch, iter) ==
    CASE ch = SPACE -> [res |-> scan_whitespace(iter), mode |-> "Regular"]
      [] ch = TAB -> [res |-> scan_tab(iter), mode |-> "Regular"]
      [] ch = CR -> [res |-> scan_cr(iter), mode |-> "Regular"]
      [] ch = SEMICOLON -> [res |-> scan_comment(iter), mode |-> "Regular"]
      [] ch = LF -> [res |-> ScanRes("NewlineLf", iter), mode |-> "Regular"]
      [] ch = LPAREN -> [res |-> ScanRes("LParen", iter), mode |-> "Regular"]
      [] ch = RPAREN -> [res |-> ScanRes("RParen", iter), mode |-> "Regular"]
      [] ch = LBRACKET -> [res |-> ScanRes("LBracket", iter), mode |-> "Regular"]
      [] ch = RBRACKET -> [res |-> ScanRes("RBracket", iter), mode |-> "Regular"]
      [] ch = LBRACE -> [res |-> ScanRes("LBrace", iter), mode |-> "Regular"]
      [] ch = RBRACE -> [res |-> ScanRes("RBrace", iter), mode |-> "Regular"]
      [] ch = QUOTE -> scan_string_start(iter)
      [] ch = PLUS \/ ch = MINUS -> [res |-> scan_sign(iter), mode |-> "Regular"]
      [] ch = HASH -> [res |-> scan_number_sign(iter), mode |-> "Regular"]
      [] is_ascii_digit(ch) ->
            [res |-> scan_number_continue(iter), mode |-> "Regular"]
      [] OTHER -> [res |-> scan_identifier_continue(iter), mode |-> "Regular"]

\* The scan one call of next() runs: the match on self.mode.
scan(ch, iter) ==
    IF mode = "String" THEN scan_string_continue(ch, iter)
    ELSE scan_regular(ch, iter)

\* The lexeme next() builds from a scan result: the slice runs from the
\* start of self.iter to slice_end.  mode and mode_after record the mode the
\* call found and the mode it left.
Lexeme(r) ==
    [kind |-> r.res.kind, start |-> cursor, end |-> r.res.slice_end,
     mode |-> mode, mode_after |-> r.mode]

\* Scanner::new over any buffer of the bounded set.
New(src) ==
    /\ buf = src
    /\ cursor = 0
    /\ mode = "Regular"
    /\ emitted = <<>>
    /\ ret = "new"

Init == \E src \in Buffers(MaxLen) : New(src)

\* next() as it would be if it kept the iterator that took the leading byte
\* instead of rebuilding self.iter at slice_end.
next_some_keeps_peek ==
    /\ HasNext(cursor)
    /\ LET r == scan(At(cursor), cursor + 1) IN
        /\ emitted' = Append(emitted, Lexeme(r))
        /\ cursor' = cursor + 1
        /\ mode' = r.mode
    /\ ret' = "some"
    /\ buf' = buf

\* next() with a byte left: one scan, the lexeme, and the iterator rebuilt at
\* slice_end.
next_some ==
    /\ HasNext(cursor)
    /\ LET r == scan(At(cursor), cursor + 1) IN
        /\ emitted' = Append(emitted, Lexeme(r))
        /\ cursor' = r.res.slice_end
        /\ mode' = r.mode
    /\ ret' = "some"
    /\ buf' = buf

\* next() as it would be if the end of the input put the scanner back in
\* Regular mode.
next_none_resets_mode ==
    /\ ~HasNext(cursor)
    /\ ret' = "none"
    /\ mode' = "Regular"
    /\ UNCHANGED <<buf, cursor, emitted>>

\* next() at the end of the input: iter.next()? returns None before anything
\* is written.
next_none ==
    /\ ~HasNext(cursor)
    /\ ret' = "none"
    /\ UNCHANGED <<buf, cursor, mode, emitted>>

Next == next_some \/ next_none

Spec == Init /\ [][Next]_vars

\* The caller keeps calling next() until it returns None.
FairInit == \E src \in Buffers(MaxFairLen) : New(src)

FairSpec == FairInit /\ [][Next]_vars /\ WF_vars(Next)

(***************************************************************************)
(* What the properties are stated with.  None of this is scanner code: the *)
(* operators below read the buffer and the lexemes emitted so far.         *)
(***************************************************************************)
Lexemes == {emitted[i] : i \in 1..Len(emitted)}

\* The bytes of a lexeme's slice.
Slice(l) == SubSeq(buf, l.start + 1, l.end)

\* The offsets a lexeme's slice covers.
Covered(l) == l.start..(l.end - 1)

\* The slices of the first n lexemes, concatenated in order.
RECURSIVE ConcatSlices(_)
ConcatSlices(n) ==
    IF n = 0 THEN <<>> ELSE ConcatSlices(n - 1) \o Slice(emitted[n])

\* The number of consecutive backslashes immediately before offset p.
RECURSIVE BackslashesBefore(_)
BackslashesBefore(p) ==
    IF p = 0 THEN 0
    ELSE IF At(p - 1) # BACKSLASH THEN 0
    ELSE 1 + BackslashesBefore(p - 1)

Odd(n) == n % 2 = 1

\* The byte at offset p is absent or a delimiter.
DelimiterOrEnd(p) == IF p >= Len(buf) THEN TRUE ELSE is_delimiter(At(p))

\* The first offset from p on that holds a delimiter, or the end of input.
NextDelimiter(p) ==
    CHOOSE q \in p..Len(buf) :
        /\ DelimiterOrEnd(q)
        /\ \A k \in p..(q - 1) : ~is_delimiter(At(k))

AllDigits(from, to) == \A p \in from..(to - 1) : is_ascii_digit(At(p))

IsSign(ch) == ch = PLUS \/ ch = MINUS

(***************************************************************************)
(* C1.  The slices emitted so far, concatenated in order, are exactly the  *)
(* buffer's prefix [0, cursor): every lexeme starts where the one before   *)
(* it ended, none extends past the end of the buffer, and once next() has  *)
(* returned None the concatenation is the whole buffer.                    *)
(***************************************************************************)
SlicesPartitionPrefix ==
    /\ cursor <= Len(buf)
    /\ \A i \in 1..Len(emitted) :
        /\ emitted[i].start = (IF i = 1 THEN 0 ELSE emitted[i - 1].end)
        /\ emitted[i].start <= emitted[i].end
        /\ emitted[i].end <= Len(buf)
    /\ cursor = (IF emitted = <<>> THEN 0 ELSE emitted[Len(emitted)].end)
    /\ ConcatSlices(Len(emitted)) = SubSeq(buf, 1, cursor)
    /\ ret = "none" => ConcatSlices(Len(emitted)) = buf

\* A whole buffer scanned to the end into several lexemes, one of them
\* longer than a byte.
SlicesPartitionPrefixWitness ==
    /\ ret = "none"
    /\ Len(emitted) >= 3
    /\ \E l \in Lexemes : l.end - l.start >= 2

(***************************************************************************)
(* C2.  Scanning terminates: repeated next() calls eventually return None, *)
(* after at most Len(buf) lexemes, and once next() has returned None it    *)
(* leaves cursor and mode alone and every later call returns None too.     *)
(***************************************************************************)
ScanTerminates ==
    /\ <>(ret = "none")
    /\ [](Len(emitted) <= Len(buf))
    /\ [][/\ ret' = "none" => (cursor' = cursor /\ mode' = mode)
          /\ ret = "none" => ret' = "none"]_vars

\* The input ran out inside a string, after as many lexemes as bytes.
ScanTerminatesWitness ==
    /\ ret = "none"
    /\ mode = "String"
    /\ Len(buf) >= 3
    /\ Len(emitted) = Len(buf)

(***************************************************************************)
(* C3.  Every next() call that returns a lexeme strictly advances the      *)
(* cursor, by the length of the slice, which is at least one byte; the     *)
(* cursor never moves backwards.                                           *)
(***************************************************************************)
CursorStrictlyAdvances ==
    [][/\ cursor' >= cursor
       /\ ret' = "some" =>
            /\ Len(emitted') = Len(emitted) + 1
            /\ emitted'[Len(emitted')].start = cursor
            /\ emitted'[Len(emitted')].end = cursor'
            /\ cursor' >= cursor + 1]_vars

\* A string body that starts with a backslash, and later a '#' that ends the
\* input, were both emitted as one-byte lexemes.
CursorStrictlyAdvancesWitness ==
    /\ \E l \in Lexemes :
        l.mode = "String" /\ At(l.start) = BACKSLASH /\ l.end = l.start + 1
    /\ \E l \in Lexemes :
        l.mode = "Regular" /\ At(l.start) = HASH /\ l.end = Len(buf)

(***************************************************************************)
(* C4.  In String mode a '"' with an odd number of backslashes right      *)
(* before it does not close the string: it is never emitted as RString,    *)
(* never ends a StringContent run, lies inside a StringContent slice, and  *)
(* the mode stays String.                                                  *)
(***************************************************************************)
EscapedQuoteStaysInString ==
    \A l \in Lexemes :
        l.mode = "String" =>
            /\ \A p \in Covered(l) :
                (At(p) = QUOTE /\ Odd(BackslashesBefore(p))) =>
                    (l.kind = "StringContent" /\ l.mode_after = "String")
            /\ (l.kind = "StringContent" /\ l.end < Len(buf)) =>
                ~(At(l.end) = QUOTE /\ Odd(BackslashesBefore(l.end)))

(***************************************************************************)
(* C5.  In String mode a '"' with an even number of backslashes right     *)
(* before it (none, two, ...) closes the string: it is not part of a        *)
(* StringContent slice, it is emitted as a one-byte RString, and the mode  *)
(* goes back to Regular.                                                   *)
(***************************************************************************)
UnescapedQuoteClosesString ==
    \A l \in Lexemes :
        l.mode = "String" =>
            \A p \in Covered(l) :
                (At(p) = QUOTE /\ ~Odd(BackslashesBefore(p))) =>
                    /\ l.kind = "RString"
                    /\ l.start = p
                    /\ l.end = p + 1
                    /\ l.mode_after = "Regular"

(***************************************************************************)
(* C6.  In Regular mode a '+' or '-' followed by a delimiter or by the end *)
(* of the input is emitted as an Identifier of exactly the sign byte; the  *)
(* delimiter is left for the next lexeme.                                  *)
(***************************************************************************)
LoneSignIsOneByteIdentifier ==
    \A l \in Lexemes :
        (l.mode = "Regular" /\ IsSign(At(l.start))
            /\ DelimiterOrEnd(l.start + 1)) =>
                (l.kind = "Identifier" /\ l.end = l.start + 1)

(***************************************************************************)
(* C7.  No Identifier, IntLit, FloatLit, CharLit, KeywordLit or BoolLit    *)
(* has a delimiter byte in its slice, and each is followed by a delimiter  *)
(* or by the end of the input.                                             *)
(***************************************************************************)
RunKinds ==
    {"Identifier", "IntLit", "FloatLit", "CharLit", "KeywordLit", "BoolLit"}

DelimitersEndRunsUnconsumed ==
    \A l \in Lexemes :
        l.kind \in RunKinds =>
            /\ \A p \in Covered(l) : ~is_delimiter(At(p))
            /\ DelimiterOrEnd(l.end)

(***************************************************************************)
(* C8.  In Regular mode a '#' followed by nothing, or by a byte other than *)
(* 't', 'f', '\' and ':', is emitted as InvalidNumberSign running up to,   *)
(* not including, the first delimiter after the '#'; the mode stays        *)
(* Regular.                                                                *)
(***************************************************************************)
InvalidNumberSignStopsAtDelimiter ==
    \A l \in Lexemes :
        (/\ l.mode = "Regular"
         /\ At(l.start) = HASH
         /\ IF HasNext(l.start + 1)
            THEN At(l.start + 1) \notin {LOWER_T, LOWER_F, BACKSLASH, COLON}
            ELSE TRUE) =>
            /\ l.kind = "InvalidNumberSign"
            /\ l.end = NextDelimiter(l.start + 1)
            /\ l.mode_after = "Regular"

(***************************************************************************)
(* C9.  In Regular mode, at a digit, or at a sign followed by a digit, one *)
(* lexeme spans the whole run up to the next delimiter or the end of the   *)
(* input: IntLit iff the run is [sign] digit+, FloatLit iff it is          *)
(* [sign] digit+ '.' digit*, Identifier otherwise.                         *)
(***************************************************************************)
StartsNumber(p) ==
    \/ is_ascii_digit(At(p))
    \/ IsSign(At(p)) /\ HasNext(p + 1) /\ is_ascii_digit(At(p + 1))

\* The kind the shape of the run [from, to) calls for.
NumberShape(from, to) ==
    LET first == IF IsSign(At(from)) THEN from + 1 ELSE from IN
    IF AllDigits(first, to) THEN "IntLit"
    ELSE IF \E d \in (first + 1)..(to - 1) :
                At(d) = DOT /\ AllDigits(first, d) /\ AllDigits(d + 1, to)
         THEN "FloatLit"
    ELSE "Identifier"

NumberRunIsOneLexeme ==
    \A l \in Lexemes :
        (l.mode = "Regular" /\ StartsNumber(l.start)) =>
            /\ l.end = NextDelimiter(l.start)
            /\ l.kind = NumberShape(l.start, l.end)

\* A run that starts as a float and goes wrong after the point was emitted
\* as one Identifier.
NumberRunIsOneLexemeWitness ==
    \E l \in Lexemes :
        /\ l.mode = "Regular"
        /\ StartsNumber(l.start)
        /\ l.kind = "Identifier"
        /\ l.end - l.start >= 3
        /\ \E d \in Covered(l) : At(d) = DOT /\ AllDigits(l.start, d)

(***************************************************************************)
(* C10.  In Regular mode '#t' or '#f' is a two-byte BoolLit iff a          *)
(* delimiter or the end of the input follows; otherwise one                *)
(* InvalidNumberSign runs from the '#' to the next delimiter or the end of *)
(* the input.                                                              *)
(***************************************************************************)
BoolLitIsExact ==
    \A l \in Lexemes :
        /\ (/\ l.mode = "Regular"
            /\ At(l.start) = HASH
            /\ HasNext(l.start + 1)
            /\ At(l.start + 1) \in {LOWER_T, LOWER_F}) =>
                IF DelimiterOrEnd(l.start + 2)
                THEN l.kind = "BoolLit" /\ l.end = l.start + 2
                ELSE /\ l.kind = "InvalidNumberSign"
                     /\ l.end = NextDelimiter(l.start + 2)
        /\ l.kind = "BoolLit" =>
            /\ l.end = l.start + 2
            /\ At(l.start) = HASH
            /\ At(l.start + 1) \in {LOWER_T, LOWER_F}
            /\ DelimiterOrEnd(l.end)

\* '#t' with more of a word after it was emitted as one InvalidNumberSign
\* that stops at a delimiter.
BoolLitIsExactWitness ==
    \E l \in Lexemes :
        /\ l.mode = "Regular"
        /\ l.kind = "InvalidNumberSign"
        /\ l.end - l.start >= 3
        /\ At(l.start + 1) = LOWER_T
        /\ HasNext(l.end)

NewlineKinds == {"NewlineLf", "NewlineCr", "NewlineCrlf"}

(***************************************************************************)
(* C11.  In both modes a next() call with the cursor at CR emits a 2-byte  *)
(* NewlineCrlf iff the next byte is LF and a 1-byte NewlineCr otherwise    *)
(* (also at the end of the input); with the cursor at LF it emits a 1-byte *)
(* NewlineLf.  No newline lexeme changes the mode.                         *)
(***************************************************************************)
NewlineDiscrimination ==
    \A l \in Lexemes :
        /\ At(l.start) = CR =>
            IF HasNext(l.start + 1) /\ At(l.start + 1) = LF
            THEN l.kind = "NewlineCrlf" /\ l.end = l.start + 2
            ELSE l.kind = "NewlineCr" /\ l.end = l.start + 1
        /\ At(l.start) = LF =>
            (l.kind = "NewlineLf" /\ l.end = l.start + 1)
        /\ l.kind \in NewlineKinds =>
            (is_newline_start(At(l.start)) /\ l.mode_after = l.mode)

\* Inside a string a CR LF pair was emitted as one NewlineCrlf, and a CR that
\* ends the input as NewlineCr.
NewlineDiscriminationWitness ==
    /\ \E l \in Lexemes : l.mode = "String" /\ l.kind = "NewlineCrlf"
    /\ \E l \in Lexemes : l.kind = "NewlineCr" /\ l.end = Len(buf)

\* The first offset from p on that holds CR or LF, or the end of input.
NextNewline(p) ==
    CHOOSE q \in p..Len(buf) :
        /\ IF HasNext(q) THEN is_newline_start(At(q)) ELSE TRUE
        /\ \A k \in p..(q - 1) : ~is_newline_start(At(k))

(***************************************************************************)
(* C12.  In Regular mode a ';' starts a Comment that runs up to, not       *)
(* including, the first CR or LF after it, or to the end of the input.  A  *)
(* Comment slice holds no CR or LF; delimiters inside it neither end it    *)
(* nor change the mode.                                                    *)
(***************************************************************************)
CommentRunsToNewline ==
    \A l \in Lexemes :
        /\ (l.mode = "Regular" /\ At(l.start) = SEMICOLON) =>
            /\ l.kind = "Comment"
            /\ l.end = NextNewline(l.start + 1)
            /\ l.mode_after = "Regular"
        /\ l.kind = "Comment" =>
            /\ l.mode = "Regular"
            /\ At(l.start) = SEMICOLON
            /\ \A p \in Covered(l) : ~is_newline_start(At(p))

\* A Comment that holds a quote was emitted, and a newline ended it.
CommentRunsToNewlineWitness ==
    \E l \in Lexemes :
        /\ l.kind = "Comment"
        /\ \E p \in Covered(l) : At(p) = QUOTE
        /\ HasNext(l.end)
        /\ mode = "Regular"

(***************************************************************************)
(* C13.  In Regular mode '#:' starts one KeywordLit and '#\' one CharLit,  *)
(* running from the '#' up to, not including, the next delimiter or the    *)
(* end of the input; when that follows the prefix at once the lexeme is    *)
(* the 2-byte prefix and still KeywordLit (CharLit).                       *)
(***************************************************************************)
KeywordAndCharRunToDelimiter ==
    \A l \in Lexemes :
        (l.mode = "Regular" /\ At(l.start) = HASH /\ HasNext(l.start + 1)) =>
            /\ At(l.start + 1) = COLON =>
                /\ l.kind = "KeywordLit"
                /\ l.end = NextDelimiter(l.start + 2)
                /\ DelimiterOrEnd(l.start + 2) => l.end = l.start + 2
            /\ At(l.start + 1) = BACKSLASH =>
                /\ l.kind = "CharLit"
                /\ l.end = NextDelimiter(l.start + 2)
                /\ DelimiterOrEnd(l.start + 2) => l.end = l.start + 2

\* A '#:' with a delimiter right after it was emitted as a 2-byte
\* KeywordLit, and the delimiter as the lexeme after it.
KeywordAndCharRunToDelimiterWitness ==
    \E i \in 1..(Len(emitted) - 1) :
        /\ emitted[i].kind = "KeywordLit"
        /\ emitted[i].end = emitted[i].start + 2
        /\ emitted[i + 1].start = emitted[i].end
        /\ is_delimiter(At(emitted[i + 1].start))

(***************************************************************************)
(* C14.  When the input ends while the mode is String, next() returns None *)
(* and the last lexeme is a StringContent, a newline or the LString, with  *)
(* no RString after that LString; also when the input ends on a backslash. *)
(* No lexeme of kind UnterminatedString or StringLit is ever emitted.      *)
(***************************************************************************)
UnterminatedStringJustEnds ==
    /\ \A l \in Lexemes : l.kind \notin {"UnterminatedString", "StringLit"}
    /\ (mode = "String" /\ ~HasNext(cursor)) =>
        /\ ENABLED next_none
        /\ ~ENABLED next_some
        /\ emitted # <<>>
        /\ emitted[Len(emitted)].kind \in
                {"StringContent", "LString"} \cup NewlineKinds
        /\ \E i \in 1..Len(emitted) :
            /\ emitted[i].kind = "LString"
            /\ \A j \in (i + 1)..Len(emitted) :
                emitted[j].kind \notin {"LString", "RString"}

\* The input ended on a backslash inside a string and next() returned None.
UnterminatedStringJustEndsWitness ==
    /\ ret = "none"
    /\ mode = "String"
    /\ Len(emitted) >= 2
    /\ emitted[Len(emitted)].kind = "StringContent"
    /\ At(Len(buf) - 1) = BACKSLASH

QuoteMarkers == {"LString", "RString"}

\* The kind of the last quote marker among the first n lexemes.
RECURSIVE LastMarker(_)
LastMarker(n) ==
    IF n = 0 THEN "none"
    ELSE IF emitted[n].kind \in QuoteMarkers THEN emitted[n].kind
    ELSE LastMarker(n - 1)

\* The mode the scanner was in after its first n lexemes.
ModeAfter(n) == IF n = Len(emitted) THEN mode ELSE emitted[n + 1].mode

(***************************************************************************)
(* C16.  A Scanner starts in Regular mode, and after any number of next()  *)
(* calls the mode is String iff the last quote marker emitted is an        *)
(* LString.  LString and RString alternate, LString first; LString is      *)
(* emitted only in Regular mode, RString and StringContent only in String  *)
(* mode, and no other lexeme changes the mode.                             *)
(***************************************************************************)
ModeFollowsQuoteMarkers ==
    /\ \A n \in 0..Len(emitted) :
        ModeAfter(n) = (IF LastMarker(n) = "LString" THEN "String"
                        ELSE "Regular")
    /\ \A n \in 1..Len(emitted) :
        LET l == emitted[n] IN
        /\ l.mode_after = ModeAfter(n)
        /\ l.kind = "LString" =>
            (l.mode = "Regular" /\ LastMarker(n - 1) # "LString")
        /\ l.kind = "RString" =>
            (l.mode = "String" /\ LastMarker(n - 1) = "LString")
        /\ l.kind = "StringContent" => l.mode = "String"
        /\ l.kind \notin QuoteMarkers => l.mode_after = l.mode

\* A string was opened, had content, was closed, and a second one opened.
ModeFollowsQuoteMarkersWitness ==
    /\ mode = "String"
    /\ \E l \in Lexemes : l.kind = "RString"
    /\ \E l \in Lexemes : l.kind = "StringContent"

(***************************************************************************)
(* C17.  While the mode is String, next() emits only RString,              *)
(* StringContent, NewlineLf, NewlineCr or NewlineCrlf, whatever the bytes  *)
(* of the body are, and a StringContent slice never holds CR or LF, also   *)
(* when the newline follows a backslash.                                   *)
(***************************************************************************)
StringModeEmitsContentAndNewlines ==
    \A l \in Lexemes :
        /\ l.mode = "String" =>
            l.kind \in {"RString", "StringContent"} \cup NewlineKinds
        /\ l.kind = "StringContent" =>
            \A p \in Covered(l) : ~is_newline_start(At(p))

\* Inside a string a StringContent ended on a backslash, before the newline
\* that follows it, and the newline was emitted as its own lexeme.
StringModeEmitsContentAndNewlinesWitness ==
    \E i \in 1..(Len(emitted) - 1) :
        /\ emitted[i].kind = "StringContent"
        /\ At(emitted[i].end - 1) = BACKSLASH
        /\ emitted[i + 1].mode = "String"
        /\ emitted[i + 1].kind \in NewlineKinds

\* The end of the maximal run of byte b that starts at offset p.
RunEnd(p, b) ==
    CHOOSE q \in p..Len(buf) :
        /\ \A k \in p..(q - 1) : At(k) = b
        /\ IF HasNext(q) THEN At(q) # b ELSE TRUE

(***************************************************************************)
(* C18.  In Regular mode a Whitespace lexeme covers the whole maximal run  *)
(* of spaces that starts at the cursor and a Tab lexeme the whole maximal  *)
(* run of tabs; such a slice holds only that byte, and two Whitespace      *)
(* lexemes, or two Tab lexemes, are never emitted back to back.            *)
(***************************************************************************)
AtmosphereRunsAreMaximal ==
    /\ \A l \in Lexemes :
        /\ (l.mode = "Regular" /\ At(l.start) = SPACE) =>
            (l.kind = "Whitespace" /\ l.end = RunEnd(l.start, SPACE))
        /\ (l.mode = "Regular" /\ At(l.start) = TAB) =>
            (l.kind = "Tab" /\ l.end = RunEnd(l.start, TAB))
        /\ l.kind = "Whitespace" =>
            (l.mode = "Regular" /\ \A p \in Covered(l) : At(p) = SPACE)
        /\ l.kind = "Tab" =>
            (l.mode = "Regular" /\ \A p \in Covered(l) : At(p) = TAB)
    /\ \A i \in 1..(Len(emitted) - 1) :
        emitted[i].kind \in {"Whitespace", "Tab"} =>
            emitted[i + 1].kind # emitted[i].kind

\* A run of two spaces and then a run of two tabs were emitted as one
\* Whitespace and one Tab.
AtmosphereRunsAreMaximalWitness ==
    \E i \in 1..(Len(emitted) - 1) :
        /\ emitted[i].kind = "Whitespace"
        /\ emitted[i].end - emitted[i].start >= 2
        /\ emitted[i + 1].kind = "Tab"
        /\ emitted[i + 1].end - emitted[i + 1].start >= 2

====
